---- MODULE Spec2Model ----
(***************************************************************************)
(* A Chord peer (hll-rust): the maintenance loops of chord.rs, the         *)
(* listener of network.rs and the message handlers of node.rs, composed    *)
(* into a network of peers that join, stabilize, fail and serve a DHT.     *)
(*                                                                         *)
(* chord.rs and network.rs call Node methods that node.rs does not hold    *)
(* (is_joined, get_successor_list, update_successor_and_successor_list,    *)
(* process_incoming_request/response, the DHT handlers, graceful_shutdown, *)
(* util::is_in_range, FingerTable, Storage).  Those are modelled from      *)
(* spec.md and are marked so in MODEL_MAP.json; everything else is         *)
(* translated from the source.  node.rs keeps one `successor` field; here  *)
(* it is the head of successor_list, and an assignment `self.successor =   *)
(* x` sets that head (PutHead).                                            *)
(***************************************************************************)
EXTENDS Integers, Sequences, FiniteSets, TLC

\* ---------------------------------------------------------------- constants

CHORD_CIRCLE_BITS == 24

FINGERTABLE_SIZE == CHORD_CIRCLE_BITS

SUCCESSORLIST_SIZE == CHORD_CIRCLE_BITS

CHORD_RING_SIZE == 2 ^ CHORD_CIRCLE_BITS

\* Option::None, for an absent OtherNode, index or payload.
None == -1

\* The addresses (ids) a peer process may have: the ids of spec.md's scenarios.
Peers == {10, 20, 30, 50}

\* The key ids and payloads the DHT client uses.
Keys == {20, 40}

Values == {1, 2}

\* In the join scenario fix_fingers is followed up to this finger index.
MaxFinger == 2

\* At most MaxFail peers fail without announcement.
MaxFail == 1

\* The user types at most MaxOps requests.
MaxOps == 2

VARIABLES
    proc,            \* per peer: "absent", "waiting", "up", "failed", "exit0", "exit1"
    entry,           \* per peer: entry_node_addr (None: the first peer)
    successor_list,  \* Node: successor list, head = successor
    predecessor,     \* Node: predecessor (None when absent)
    finger_table,    \* Node: finger table, entry i |-> node
    joined,          \* Node: joined flag
    storage,         \* Node: DHT store, key |-> payload or None
    net,             \* messages accepted by a listener, not yet handled
    jd,              \* join driver of spawn_node: "none", "check", "send", "done"
    stab,            \* stabilize thread: pc, node_clone, succ
    cp,              \* check_predecessor thread: pc, node_clone
    ff,              \* fix_fingers thread: pc, next, node_clone
    client,          \* the interactive DHT client: operations issued and answered
    lock,            \* per peer: the worker holding the Mutex<Node> across I/O, or "free"
    sd,              \* listen_for_kill_signal thread: pc, node_clone
    call             \* a function under evaluation: its arguments and results

vars == <<proc, entry, successor_list, predecessor, finger_table, joined,
          storage, net, jd, stab, cp, ff, client, lock, sd, call>>

nodeVars == <<successor_list, predecessor, finger_table, joined, storage>>

threadVars == <<jd, stab, cp, ff>>

\* ------------------------------------------------------------ ring arithmetic

x_modulo_ring_size(x) == x % CHORD_RING_SIZE

\* An interval test that compares the ids without reducing modulo the ring size.
is_in_interval_NoWrap(first, second, id) ==
    IF first = second
    THEN TRUE
    ELSE id - first < second - first

is_in_interval(first, second, id) ==
    IF first = second
    THEN TRUE
    ELSE x_modulo_ring_size(id - first) < x_modulo_ring_size(second - first)

\* An ownership test that leaves the node's own id out.
is_my_key_Open(self_id, pre_id, key_id) ==
    key_id # pre_id /\ is_in_interval(pre_id, self_id, key_id)

is_my_key(self_id, pre_id, key_id) ==
    self_id = key_id \/ (key_id # pre_id /\ is_in_interval(pre_id, self_id, key_id))

\* util::is_in_range(id, first, second): id in (first, second), the full ring
\* when first = second.
is_in_range(id, first, second) ==
    IF first = second
    THEN TRUE
    ELSE /\ 0 < x_modulo_ring_size(id - first)
         /\ x_modulo_ring_size(id - first) < x_modulo_ring_size(second - first)

\* util::is_in_half_range(id, first, second): id in (first, second].
is_in_half_range(id, first, second) ==
    IF first = second
    THEN TRUE
    ELSE /\ 0 < x_modulo_ring_size(id - first)
         /\ x_modulo_ring_size(id - first) <= x_modulo_ring_size(second - first)

get_finger_id(id, index) == x_modulo_ring_size(id + 2 ^ index)

\* ------------------------------------------------------------------ the node

Truncate(list, n) == IF Len(list) <= n THEN list ELSE SubSeq(list, 1, n)

\* The list with x as its head, its other entries kept behind it.
PutHead(list, x) ==
    Truncate(<<x>> \o SelectSeq(list, LAMBDA y : y # x), SUCCESSORLIST_SIZE)

get_successor(p) == Head(successor_list[p])

FingerTable_new(node) == [i \in 0 .. FINGERTABLE_SIZE - 1 |-> node]

\* Node::closet_finger_preceding: the loop `for x in length()..0` runs over an
\* empty range, so only the successor is consulted.
closet_finger_preceding(p, find_id) ==
    IF is_in_range(get_successor(p), p, find_id) THEN get_successor(p) ELSE p

\* ------------------------------------------------------------- the transport

\* Storage::new: no key holds a payload.
EmptyStore == [k \in Keys |-> None]

\* A message on the wire; data holds DHT entries, key |-> payload.
Msg(type, to, sender, id, index, node, data) ==
    [type |-> type, to |-> to, sender |-> sender, id |-> id, index |-> index,
     node |-> node, data |-> data]

\* A probe that finds every peer dead.
check_alive_Never(q) == FALSE

\* check_alive: connecting succeeds iff the peer's listener runs.
check_alive(q) == proc[q] = "up"

\* send_string_to_socket: a failed connect is logged and the message is lost.
Sent(msgs, m) == IF check_alive(m.to) THEN msgs \cup {m} ELSE msgs

\* A process that ends drops what its listener had accepted.
Purge(msgs, p) == {m \in msgs : m.to # p}

\* ------------------------------------------------------- the node's handlers

\* Node::find_successor: the answer to FindSuccessor{id} (and, with an index, to
\* FindSuccessorFinger).  Both branches set the message type FOUND_SUCCESSOR;
\* the label is the successor, or closet_finger_preceding(id).
find_successor(p, id) ==
    IF is_in_half_range(id, p, get_successor(p))
    THEN [type |-> "FOUND_SUCCESSOR", node |-> get_successor(p)]
    ELSE [type |-> "FOUND_SUCCESSOR", node |-> closet_finger_preceding(p, id)]

\* A Notify that never changes the predecessor.
update_predecessor_Keep(p, from) == predecessor[p]

\* A Notify that drops a predecessor the candidate does not replace.
update_predecessor_Drop(p, from) ==
    IF predecessor[p] # None
    THEN IF is_in_range(from, predecessor[p], p) THEN from ELSE None
    ELSE from

\* Node::update_predecessor: the predecessor after Notify from `from`.
update_predecessor(p, from) ==
    IF predecessor[p] # None
    THEN IF is_in_range(from, predecessor[p], p) THEN from ELSE predecessor[p]
    ELSE from

\* A successor that is never advanced.
update_successor_Keep(p, from) == successor_list[p]

\* Node::update_successor: the successor list after learning `from`.
update_successor(p, from) ==
    IF is_in_range(from, p, get_successor(p))
    THEN PutHead(successor_list[p], from)
    ELSE successor_list[p]

\* A found_successor that pushes the peer in front of the list as it is.
found_successor_Push(p, from) == Truncate(<<from>> \o successor_list[p], SUCCESSORLIST_SIZE)

\* Node::found_successor, the branch without a finger index: successor = from.
found_successor(p, from) == PutHead(successor_list[p], from)

\* FingerTable::put(index, id, from).
FingerTable_put(table, index, from) == [table EXCEPT ![index] = from]

\* Node::update_successor_and_successor_list(succ): the entries found dead
\* before succ leave the list, succ becomes its head.
update_successor_and_successor_list(p, succ, dead) ==
    PutHead(SelectSeq(successor_list[p], LAMBDA y : y \notin dead), succ)

\* The threads' local state when they hold no clone.
ThreadOff == [pc |-> "off", list |-> <<>>, succ |-> None]

CheckOff == [pc |-> "off", pred |-> None]

FixOff == [pc |-> "off", next |-> 1]

\* ------------------------------------------------------- spawn_node: startup

\* spawn_node: the process starts, its listener runs; a first peer starts its
\* maintenance threads at once, a joining peer runs the join driver first.
Start(p) ==
    /\ proc[p] = "waiting"
    /\ entry[p] = None \/ entry[p] # p
    /\ proc' = [proc EXCEPT ![p] = "up"]
    /\ IF entry[p] = None
       THEN /\ jd' = [jd EXCEPT ![p] = "none"]
            /\ stab' = [stab EXCEPT ![p].pc = "lock"]
            /\ cp' = [cp EXCEPT ![p].pc = "lock"]
            /\ ff' = [ff EXCEPT ![p].pc = "lock"]
       ELSE /\ jd' = [jd EXCEPT ![p] = "check"]
            /\ UNCHANGED <<stab, cp, ff>>
    /\ UNCHANGED <<entry, lock, nodeVars, net, client, sd, call>>

\* spawn_node, `while !node_join.is_joined()`: the driver reads joined under
\* the lock; once joined it ends and the maintenance threads are spawned.
JoinCheck(p) ==
    /\ proc[p] = "up"
    /\ lock[p] = "free"
    /\ jd[p] = "check"
    /\ IF joined[p]
       THEN /\ jd' = [jd EXCEPT ![p] = "done"]
            /\ stab' = [stab EXCEPT ![p].pc = "lock"]
            /\ cp' = [cp EXCEPT ![p].pc = "lock"]
            /\ ff' = [ff EXCEPT ![p].pc = "lock"]
       ELSE /\ jd' = [jd EXCEPT ![p] = "send"]
            /\ UNCHANGED <<stab, cp, ff>>
    /\ UNCHANGED <<proc, entry, lock, nodeVars, net, client, sd, call>>

\* chord::join: FindSuccessor{id} to the entry node, then the sleep.
join(p) ==
    /\ proc[p] = "up"
    /\ jd[p] = "send"
    /\ net' = Sent(net, Msg("FindSuccessor", entry[p], p, p, None, None, EmptyStore))
    /\ jd' = [jd EXCEPT ![p] = "check"]
    /\ UNCHANGED <<proc, entry, lock, nodeVars, stab, cp, ff, client, sd, call>>

\* ------------------------------------------------------------------ stabilize

\* thread::sleep(NODE_STABILIZE_INTERVAL) outlasts the handling of a message:
\* when the sleep ends the listeners have handled what they had accepted.
SleepEnds == net = {}

\* stabilize, lines 58-67 and 77-83: lock, clone, drop; a clone that is not
\* joined sleeps; else the cloned list is probed head first and the first live
\* entry is sent GetPredecessor; with no live entry the process exits with
\* status 1.
StabilizeProbe(p) ==
    /\ proc[p] = "up"
    /\ lock[p] = "free"
    /\ stab[p].pc = "lock"
    /\ SleepEnds
    /\ LET list == successor_list[p]
           live == {i \in 1 .. Len(list) : check_alive(list[i])}
       IN IF ~joined[p]
          THEN UNCHANGED <<proc, net, stab>>
          ELSE IF live # {}
          THEN LET i == CHOOSE i \in live : \A j \in live : i <= j
               IN /\ net' = Sent(net, Msg("GetPredecessor", list[i], p, None, None, None, EmptyStore))
                  /\ stab' = [stab EXCEPT ![p] = [pc |-> "install", list |-> list,
                                                  succ |-> list[i]]]
                  /\ UNCHANGED proc
          ELSE /\ proc' = [proc EXCEPT ![p] = "exit1"]
               /\ net' = Purge(net, p)
               /\ stab' = [stab EXCEPT ![p] = [ThreadOff EXCEPT !.pc = "exit"]]
    /\ UNCHANGED <<entry, lock, nodeVars, jd, cp, ff, client, sd, call>>

\* stabilize, line 69: lock again and install the live entry; then the sleep.
StabilizeInstall(p) ==
    /\ proc[p] = "up"
    /\ lock[p] = "free"
    /\ stab[p].pc = "install"
    /\ LET list == stab[p].list
           dead == {list[i] : i \in {j \in 1 .. Len(list) :
                                       \A k \in 1 .. j : list[k] # stab[p].succ}}
       IN /\ successor_list' = [successor_list EXCEPT
                ![p] = update_successor_and_successor_list(p, stab[p].succ, dead)]
          /\ finger_table' = [finger_table EXCEPT ![p][0] = stab[p].succ]
    /\ stab' = [stab EXCEPT ![p] = [ThreadOff EXCEPT !.pc = "lock"]]
    /\ UNCHANGED <<proc, entry, lock, predecessor, joined, storage, net, jd, cp, ff,
                   client, sd, call>>

\* ---------------------------------------------------------- check_predecessor

\* check_predecessor, lines 120-126: lock, clone, drop; the clone's predecessor
\* is probed when the clone is joined.
CheckPredecessorProbe(p) ==
    /\ proc[p] = "up"
    /\ lock[p] = "free"
    /\ cp[p].pc = "lock"
    /\ IF joined[p] /\ predecessor[p] # None /\ ~check_alive(predecessor[p])
       THEN cp' = [cp EXCEPT ![p] = [pc |-> "clear", pred |-> predecessor[p]]]
       ELSE UNCHANGED cp
    /\ UNCHANGED <<proc, entry, lock, nodeVars, net, jd, stab, ff, client, sd, call>>

\* A check_predecessor that leaves the dead predecessor in place.
CheckPredecessorClear_Keep(p) ==
    /\ proc[p] = "up"
    /\ lock[p] = "free"
    /\ cp[p].pc = "clear"
    /\ cp' = [cp EXCEPT ![p] = [CheckOff EXCEPT !.pc = "lock"]]
    /\ UNCHANGED <<proc, entry, lock, nodeVars, net, jd, stab, ff, client, sd, call>>

\* check_predecessor, line 130: lock again, set_predecessor(None).
CheckPredecessorClear(p) ==
    /\ proc[p] = "up"
    /\ lock[p] = "free"
    /\ cp[p].pc = "clear"
    /\ predecessor' = [predecessor EXCEPT ![p] = None]
    /\ cp' = [cp EXCEPT ![p] = [CheckOff EXCEPT !.pc = "lock"]]
    /\ UNCHANGED <<proc, entry, lock, successor_list, finger_table, joined, storage,
                   net, jd, stab, ff, client, sd, call>>

\* ---------------------------------------------------------------- fix_fingers

\* The finger index after a request for `next`: lines 105-109.
NextFinger(next) == IF next < FINGERTABLE_SIZE - 1 THEN next + 1 ELSE 1

\* A fix_fingers whose index wraps through every slot of the table.
FixFingers_Zero(p) ==
    /\ proc[p] = "up"
    /\ lock[p] = "free"
    /\ ff[p].pc = "lock"
    /\ SleepEnds
    /\ IF joined[p]
       THEN /\ net' = Sent(net, Msg("FindSuccessorFinger", get_successor(p), p,
                                    get_finger_id(p, ff[p].next), ff[p].next, None,
                                    EmptyStore))
            /\ ff' = [ff EXCEPT ![p].next = (@ + 1) % FINGERTABLE_SIZE]
       ELSE UNCHANGED <<net, ff>>
    /\ UNCHANGED <<proc, entry, lock, nodeVars, jd, stab, cp, client, sd, call>>

\* fix_fingers, lines 94-112, one iteration: lock, clone, drop; a joined clone
\* sends FindSuccessorFinger{next, get_finger_id(id, next)} to its successor
\* and advances next; a clone that is not joined only sleeps.  The sleep
\* outlasts the handling of a message, as in stabilize.
FixFingers(p) ==
    /\ proc[p] = "up"
    /\ lock[p] = "free"
    /\ ff[p].pc = "lock"
    /\ SleepEnds
    /\ IF joined[p]
       THEN /\ net' = Sent(net, Msg("FindSuccessorFinger", get_successor(p), p,
                                    get_finger_id(p, ff[p].next), ff[p].next, None,
                                    EmptyStore))
            /\ ff' = [ff EXCEPT ![p].next = NextFinger(@)]
       ELSE UNCHANGED <<net, ff>>
    /\ UNCHANGED <<proc, entry, lock, nodeVars, jd, stab, cp, client, sd, call>>

\* -------------------------------------------- the listener: ring maintenance

\* start_listening_on_socket, RequestMessage{FindSuccessor | FindSuccessorFinger}:
\* Node::find_successor answers, the answer goes to the request's sender.
OnFindSuccessor(m) ==
    /\ m \in net
    /\ m.type \in {"FindSuccessor", "FindSuccessorFinger"}
    /\ proc[m.to] = "up"
    /\ lock[m.to] = "free"
    /\ LET r == find_successor(m.to, m.id)
           t == IF r.type = "FOUND_SUCCESSOR"
                THEN IF m.index = None THEN "FoundSuccessor" ELSE "FoundSuccessorFinger"
                ELSE IF m.index = None THEN "AskFurther" ELSE "AskFurtherFinger"
       IN net' = Sent(net \ {m}, Msg(t, m.sender, m.to, m.id, m.index, r.node, EmptyStore))
    /\ UNCHANGED <<proc, entry, lock, nodeVars, threadVars, client, sd, call>>

\* RequestMessage{GetPredecessor}: the predecessor as it is.
OnGetPredecessor(m) ==
    /\ m \in net
    /\ m.type = "GetPredecessor"
    /\ proc[m.to] = "up"
    /\ lock[m.to] = "free"
    /\ net' = Sent(net \ {m}, Msg("GetPredecessorResponse", m.sender, m.to, None, None,
                                  predecessor[m.to], EmptyStore))
    /\ UNCHANGED <<proc, entry, lock, nodeVars, threadVars, client, sd, call>>

\* RequestMessage{Notify{node}}: Node::update_predecessor; the reply is the
\* message relabelled NOTIFY_SUCCESSOR under the new predecessor's label.
OnNotify(m) ==
    /\ m \in net
    /\ m.type = "Notify"
    /\ proc[m.to] = "up"
    /\ lock[m.to] = "free"
    /\ LET new_predecessor == update_predecessor(m.to, m.node)
       IN /\ predecessor' = [predecessor EXCEPT ![m.to] = new_predecessor]
          /\ net' = Sent(net \ {m}, Msg("NOTIFY_SUCCESSOR", m.sender, m.to, None, None,
                                        new_predecessor, EmptyStore))
    /\ UNCHANGED <<proc, entry, lock, successor_list, finger_table, joined, storage,
                   threadVars, client, sd, call>>

\* A FoundSuccessor that starts the join over when the node had joined.
OnFoundSuccessor_Rejoin(m) ==
    /\ m \in net
    /\ m.type \in {"FoundSuccessor", "FoundSuccessorFinger"}
    /\ proc[m.to] = "up"
    /\ lock[m.to] = "free"
    /\ IF m.index # None /\ m.id # None
       THEN /\ finger_table' = [finger_table EXCEPT
                                  ![m.to] = FingerTable_put(@, m.index, m.node)]
            /\ UNCHANGED <<successor_list, joined>>
       ELSE /\ successor_list' = [successor_list EXCEPT ![m.to] = found_successor(m.to, m.node)]
            /\ joined' = [joined EXCEPT ![m.to] = ~@]
            /\ UNCHANGED finger_table
    /\ net' = net \ {m}
    /\ UNCHANGED <<proc, entry, lock, predecessor, storage, threadVars, client, sd, call>>

\* ResponseMessage{FoundSuccessor | FoundSuccessorFinger}: Node::found_successor.
\* With an index the finger entry is put; without, successor = from and the
\* node is joined.
OnFoundSuccessor(m) ==
    /\ m \in net
    /\ m.type \in {"FoundSuccessor", "FoundSuccessorFinger"}
    /\ proc[m.to] = "up"
    /\ lock[m.to] = "free"
    /\ IF m.index # None /\ m.id # None
       THEN /\ finger_table' = [finger_table EXCEPT
                                  ![m.to] = FingerTable_put(@, m.index, m.node)]
            /\ UNCHANGED <<successor_list, joined>>
       ELSE /\ successor_list' = [successor_list EXCEPT ![m.to] = found_successor(m.to, m.node)]
            /\ joined' = [joined EXCEPT ![m.to] = TRUE]
            /\ UNCHANGED finger_table
    /\ net' = net \ {m}
    /\ UNCHANGED <<proc, entry, lock, predecessor, storage, threadVars, client, sd, call>>

\* process_incoming_response, GetPredecessorResponse{x}: Node::update_successor
\* when x is some peer, then Notify{self} to the current successor.
GotPredecessor(m) ==
    /\ m \in net
    /\ m.type = "GetPredecessorResponse"
    /\ proc[m.to] = "up"
    /\ lock[m.to] = "free"
    /\ LET list == IF m.node # None THEN update_successor(m.to, m.node)
                   ELSE successor_list[m.to]
       IN /\ successor_list' = [successor_list EXCEPT ![m.to] = list]
          /\ net' = Sent(net \ {m}, Msg("Notify", Head(list), m.to, None, None, m.to, EmptyStore))
    /\ UNCHANGED <<proc, entry, predecessor, finger_table, joined, storage,
                   threadVars, client, sd, call>>

\* ResponseMessage{GetPredecessorResponse{x}}, network.rs 96-100 as one step:
\* lock, process_incoming_response, drop.  The node is locked from line 78 to
\* line 99 and nothing else touches it in between.
OnGetPredecessorResponse(m) == GotPredecessor(m) /\ UNCHANGED lock

\* The NOTIFY_SUCCESSOR reply: Node::update_successor under the label.
OnNotifySuccessor(m) ==
    /\ m \in net
    /\ m.type = "NOTIFY_SUCCESSOR"
    /\ proc[m.to] = "up"
    /\ lock[m.to] = "free"
    /\ successor_list' = [successor_list EXCEPT ![m.to] = update_successor(m.to, m.node)]
    /\ net' = net \ {m}
    /\ UNCHANGED <<proc, entry, lock, predecessor, finger_table, joined, storage,
                   threadVars, client, sd, call>>

\* ------------------------------------------------------- the listener: the DHT

\* The node is responsible for the key: is_my_key against its predecessor.
Owns(p, k) == predecessor[p] # None /\ is_my_key(p, predecessor[p], k)

\* The response's name for a request's name.
Terminal(type) ==
    IF type = "DHTStoreKey" THEN "DHTStoredKey"
    ELSE IF type = "DHTFindKey" THEN "DHTFoundKey" ELSE "DHTDeletedKey"

Further(type) ==
    IF type = "DHTStoreKey" THEN "DHTAskFurtherStore"
    ELSE IF type = "DHTFindKey" THEN "DHTAskFurtherFind" ELSE "DHTAskFurtherDelete"

Reissue(type) ==
    IF type = "DHTAskFurtherStore" THEN "DHTStoreKey"
    ELSE IF type = "DHTAskFurtherFind" THEN "DHTFindKey" ELSE "DHTDeleteKey"

\* RequestMessage{DHTStoreKey | DHTFindKey | DHTDeleteKey}: the owner of the key
\* performs the operation on its store and answers; any other node names
\* closet_finger_preceding(key).  index carries key_existed (1 or 0).
OnDHTRequest(m) ==
    /\ m \in net
    /\ m.type \in {"DHTStoreKey", "DHTFindKey", "DHTDeleteKey"}
    /\ proc[m.to] = "up"
    /\ lock[m.to] = "free"
    /\ LET p == m.to
           k == m.id
       IN IF Owns(p, k)
          THEN /\ storage' = [storage EXCEPT ![p][k] =
                                IF m.type = "DHTStoreKey" THEN m.data[k]
                                ELSE IF m.type = "DHTDeleteKey" THEN None ELSE @]
               /\ net' = Sent(net \ {m},
                     Msg(Terminal(m.type), m.sender, p, k,
                         IF m.type = "DHTDeleteKey"
                         THEN (IF storage[p][k] # None THEN 1 ELSE 0) ELSE None,
                         None,
                         IF m.type = "DHTFindKey"
                         THEN [EmptyStore EXCEPT ![k] = storage[p][k]] ELSE m.data))
          ELSE /\ net' = Sent(net \ {m},
                     Msg(Further(m.type), m.sender, p, k, None,
                         closet_finger_preceding(p, k), m.data))
               /\ UNCHANGED storage
    /\ UNCHANGED <<proc, entry, lock, successor_list, predecessor, finger_table, joined,
                   threadVars, client, sd, call>>

\* RequestMessage{DHTTakeOverKeys{data}}: the entries handed over are stored.
OnDHTTakeOverKeys(m) ==
    /\ m \in net
    /\ m.type = "DHTTakeOverKeys"
    /\ proc[m.to] = "up"
    /\ lock[m.to] = "free"
    /\ storage' = [storage EXCEPT ![m.to] =
                     [k \in Keys |-> IF m.data[k] # None THEN m.data[k] ELSE @[k]]]
    /\ net' = net \ {m}
    /\ UNCHANGED <<proc, entry, lock, successor_list, predecessor, finger_table, joined,
                   threadVars, client, sd, call>>

\* process_incoming_response, DHTAskFurther*{next_node}: the request goes to
\* next_node.
DHTAskedFurther(m) ==
    /\ m \in net
    /\ m.type \in {"DHTAskFurtherStore", "DHTAskFurtherFind", "DHTAskFurtherDelete"}
    /\ proc[m.to] = "up"
    /\ lock[m.to] = "free"
    /\ net' = Sent(net \ {m}, Msg(Reissue(m.type), m.node, m.to, m.id, None, None, m.data))
    /\ UNCHANGED <<proc, entry, nodeVars, threadVars, client, sd, call>>

\* ResponseMessage{DHTAskFurther*}, network.rs 96-100 as one step.
OnDHTAskFurther(m) == DHTAskedFurther(m) /\ UNCHANGED lock

\* ResponseMessage{DHTStoredKey | DHTFoundKey | DHTDeletedKey}: the answer is
\* shown to the user who asked.
OnDHTAnswer(m) ==
    /\ m \in net
    /\ m.type \in {"DHTStoredKey", "DHTFoundKey", "DHTDeletedKey"}
    /\ proc[m.to] = "up"
    /\ lock[m.to] = "free"
    /\ client' = [client EXCEPT
                    !.state = "answered",
                    !.result = IF m.type = "DHTDeletedKey" THEN m.index ELSE m.data[m.id],
                    !.stored = IF m.type = "DHTStoredKey"
                               THEN [@ EXCEPT ![m.id] = m.data[m.id]] ELSE @,
                    !.deleted = IF m.type = "DHTDeletedKey" THEN @ \cup {m.id} ELSE @]
    /\ net' = net \ {m}
    /\ UNCHANGED <<proc, entry, lock, nodeVars, threadVars, sd, call>>

\* perform_user_interaction at node p: the user has one request answered before
\* typing the next, at a pace the listeners keep up with; the request goes to
\* p's own listener.  stored and deleted keep what the answers so far have told
\* the user.
Interact(p, op, k, v) ==
    /\ proc[p] = "up"
    /\ joined[p]
    /\ client.state \in {"idle", "answered"}
    /\ net = {}
    /\ client.count < MaxOps
    /\ client' = [client EXCEPT
                    !.state = "pending", !.op = op, !.key = k, !.count = @ + 1,
                    !.value = IF op = "DHTStoreKey" THEN v ELSE None,
                    !.at = p, !.result = None,
                    !.stored = IF op = "DHTFindKey" THEN @ ELSE [@ EXCEPT ![k] = None],
                    !.deleted = IF op = "DHTStoreKey" THEN @ \ {k} ELSE @]
    /\ net' = Sent(net, Msg(op, p, p, k, None, None,
                            IF op = "DHTStoreKey" THEN [EmptyStore EXCEPT ![k] = v]
                            ELSE EmptyStore))
    /\ UNCHANGED <<proc, entry, lock, nodeVars, threadVars, sd, call>>

DHTListener(m) ==
    \/ OnDHTRequest(m)
    \/ OnDHTTakeOverKeys(m)
    \/ OnDHTAskFurther(m)
    \/ OnDHTAnswer(m)

\* --------------------------------------------------------------- routing walk

\* A FindSuccessor{id} lookup is started at node p.
LookupStart(p, id) ==
    /\ proc[p] = "up"
    /\ client.state \in {"idle", "answered"}
    /\ client' = [client EXCEPT !.state = "pending", !.op = "FindSuccessor",
                                !.key = id, !.at = p, !.hops = 0, !.result = None]
    /\ UNCHANGED <<proc, entry, lock, nodeVars, net, threadVars, sd, call>>

\* The node asked answers with Node::find_successor; FoundSuccessor ends the
\* walk, AskFurther{next} re-issues the lookup to next.
LookupStep ==
    /\ client.state = "pending"
    /\ client.op = "FindSuccessor"
    /\ proc[client.at] = "up"
    /\ lock[client.at] = "free"
    /\ LET r == find_successor(client.at, client.key)
       IN IF r.type = "FOUND_SUCCESSOR"
          THEN client' = [client EXCEPT !.state = "answered", !.result = r.node]
          ELSE client' = [client EXCEPT !.at = r.node, !.hops = @ + 1]
    /\ UNCHANGED <<proc, entry, lock, nodeVars, net, threadVars, sd, call>>

\* ------------------------------------------------------------------- failure

\* A peer fails without announcement: its process is gone.
Fail(p) ==
    /\ proc[p] = "up"
    /\ Cardinality({q \in Peers : proc[q] = "failed"}) < MaxFail
    /\ proc' = [proc EXCEPT ![p] = "failed"]
    /\ net' = Purge(net, p)
    /\ lock' = [lock EXCEPT ![p] = "free"]
    /\ UNCHANGED <<entry, nodeVars, threadVars, client, sd, call>>

\* ------------------------------------------------------------ initial states

\* The signal thread before SIGINT.
SdOff == [pc |-> "wait", storage |-> EmptyStore, succ |-> None, pred |-> None]

\* No function is under evaluation.
NoCall == [args |-> <<>>, out |-> <<>>]

\* No worker is inside a locked section, no signal has arrived.
Idle ==
    /\ lock = [p \in Peers |-> "free"]
    /\ sd = [p \in Peers |-> SdOff]
    /\ call = NoCall

NoClient == [state |-> "idle", op |-> "none", key |-> None, value |-> None,
             at |-> None, hops |-> 0, count |-> 0, result |-> None,
             stored |-> EmptyStore, deleted |-> {}]

\* Node::new_first for the peers without entry node, Node::new for the others;
\* no process runs yet.
InitNodes(entries) ==
    /\ entry = entries
    /\ successor_list = [p \in Peers |->
                           IF entries[p] = None THEN <<p>> ELSE <<entries[p]>>]
    /\ predecessor = [p \in Peers |-> IF entries[p] = None THEN p ELSE None]
    /\ finger_table = [p \in Peers |->
                         FingerTable_new(IF entries[p] = None THEN p ELSE entries[p])]
    /\ joined = [p \in Peers |-> entries[p] = None]
    /\ storage = [p \in Peers |-> EmptyStore]
    /\ net = {}
    /\ jd = [p \in Peers |-> "none"]
    /\ stab = [p \in Peers |-> ThreadOff]
    /\ cp = [p \in Peers |-> CheckOff]
    /\ ff = [p \in Peers |-> FixOff]
    /\ client = NoClient
    /\ Idle

\* Scenario 2 of the spec: peer 10 is the first peer, peer 30 joins through it.
InitJoin ==
    /\ proc = [p \in Peers |-> IF p \in {10, 30} THEN "waiting" ELSE "absent"]
    /\ InitNodes([p \in Peers |-> IF p = 30 THEN 10 ELSE None])

Listener(m) ==
    \/ OnFindSuccessor(m)
    \/ OnGetPredecessor(m)
    \/ OnNotify(m)
    \/ OnFoundSuccessor(m)
    \/ OnGetPredecessorResponse(m)
    \/ OnNotifySuccessor(m)

NextJoin ==
    \/ \E p \in Peers : Start(p)
    \/ \E p \in Peers : JoinCheck(p)
    \/ \E p \in Peers : join(p)
    \/ \E p \in Peers : StabilizeProbe(p)
    \/ \E p \in Peers : StabilizeInstall(p)
    \/ \E p \in Peers : CheckPredecessorProbe(p)
    \/ \E m \in net : Listener(m)

SpecJoin == InitJoin /\ [][NextJoin]_vars

\* The scheduler runs every thread of a running process, and every listener
\* handles what it accepted.  A stabilize iteration starts when its sleep ends
\* (SleepEnds), which happens again and again.  stabilize locks for its install
\* (line 69) right after its send (line 67): again and again the install comes
\* before the listener has handled the answer.
Fairness(S) ==
    /\ \A p \in S : WF_vars(Start(p)) /\ WF_vars(JoinCheck(p)) /\ WF_vars(join(p))
    /\ \A p \in S : SF_vars(StabilizeProbe(p)) /\ WF_vars(StabilizeInstall(p))
                    /\ SF_vars(successor_list[p] = stab[p].list /\ StabilizeInstall(p))
    /\ \A p \in S : WF_vars(CheckPredecessorProbe(p)) /\ WF_vars(CheckPredecessorClear(p))
    /\ WF_vars(\E m \in net : OnFindSuccessor(m))
    /\ WF_vars(\E m \in net : OnGetPredecessor(m))
    /\ WF_vars(\E m \in net : OnNotify(m))
    /\ WF_vars(\E m \in net : OnFoundSuccessor(m))
    /\ WF_vars(\E m \in net : OnGetPredecessorResponse(m))
    /\ WF_vars(\E m \in net : OnNotifySuccessor(m))

FairJoin == SpecJoin /\ Fairness({10, 30})

\* A running, joined peer: its maintenance threads wait for their next iteration.
Running(S) ==
    /\ jd = [p \in Peers |-> IF p \in S /\ entry[p] # None THEN "done" ELSE "none"]
    /\ stab = [p \in Peers |-> IF p \in S THEN [ThreadOff EXCEPT !.pc = "lock"] ELSE ThreadOff]
    /\ cp = [p \in Peers |-> IF p \in S THEN [CheckOff EXCEPT !.pc = "lock"] ELSE CheckOff]
    /\ ff = [p \in Peers |-> IF p \in S THEN [FixOff EXCEPT !.pc = "lock"] ELSE FixOff]

\* The ring of 10 and 30 as the two-peer join leaves it (TwoPeerRing below);
\* peer 50 is about to join through peer 10; a peer may fail at any time.
InitChurn ==
    /\ proc = [p \in Peers |-> IF p \in {10, 30} THEN "up"
                                ELSE IF p = 50 THEN "waiting" ELSE "absent"]
    /\ entry = [p \in Peers |-> IF p \in {30, 50} THEN 10 ELSE None]
    /\ successor_list = [p \in Peers |-> IF p = 10 THEN <<30, 10>> ELSE <<10>>]
    /\ predecessor = [p \in Peers |-> IF p = 10 THEN 30 ELSE IF p = 30 THEN 10 ELSE None]
    /\ finger_table = [p \in Peers |-> IF p = 10 THEN FingerTable_put(FingerTable_new(10), 0, 30)
                                        ELSE FingerTable_new(10)]
    /\ joined = [p \in Peers |-> p \in {10, 30}]
    /\ storage = [p \in Peers |-> EmptyStore]
    /\ net = {}
    /\ Running({10, 30})
    /\ client = NoClient
    /\ Idle

NextChurn ==
    \/ \E p \in Peers : Start(p)
    \/ \E p \in Peers : JoinCheck(p)
    \/ \E p \in Peers : join(p)
    \/ \E p \in Peers : StabilizeProbe(p)
    \/ \E p \in Peers : StabilizeInstall(p)
    \/ \E p \in Peers : CheckPredecessorProbe(p)
    \/ \E p \in Peers : CheckPredecessorClear(p)
    \/ \E m \in net : Listener(m)
    \/ \E p \in Peers : Fail(p)

SpecChurn == InitChurn /\ [][NextChurn]_vars

FairChurn == SpecChurn /\ Fairness({10, 30, 50})

\* The peers whose process runs.
Live == {p \in Peers : proc[p] = "up"}

\* The live peers that have joined a ring.
Members == {p \in Live : joined[p]}

RECURSIVE Walk(_, _)
\* The peer reached from p by following n successor pointers.
Walk(p, n) == IF n = 0 THEN p ELSE get_successor(Walk(p, n - 1))

\* Following successor pointers from any peer of S visits every peer of S
\* exactly once and returns to the start.
Cycle(S) ==
    \A p \in S :
        /\ {Walk(p, n) : n \in 0 .. Cardinality(S) - 1} = S
        /\ Walk(p, Cardinality(S)) = p

TwoPeerRing ==
    /\ get_successor(10) = 30 /\ predecessor[10] = 30
    /\ get_successor(30) = 10 /\ predecessor[30] = 10
    /\ joined[30]

AllDead(p) == \A i \in 1 .. Len(successor_list[p]) : proc[successor_list[p][i]] # "up"

\* C4: ring-dead exit. A process ends with status 1 only in a stabilize iteration
\* of a joined node whose whole cloned successor list fails the probe, and such
\* an iteration always ends it so; a node that is not joined never takes this
\* exit.
C4_RingDeadExit ==
    [][\A p \in Peers :
         /\ (proc[p] = "up" /\ proc'[p] = "exit1")
                => (joined[p] /\ AllDead(p) /\ stab[p].pc = "lock")
         /\ (proc[p] = "up" /\ stab[p].pc = "lock" /\ stab'[p].pc # "lock")
                => (proc'[p] = "exit1" <=> (joined[p] /\ AllDead(p)))]_vars

C4_Witness ==
    /\ proc[10] = "failed"
    /\ proc[30] = "exit1" /\ joined[30]
    /\ proc[50] = "up" /\ ~joined[50] /\ jd[50] = "send"

\* Scenario 5 of the spec: the stabilized ring of 10, 30 and 50 as the joins of
\* SpecChurn leave it; peer 30 is killed.
InitFailover ==
    /\ proc = [p \in Peers |-> IF p \in {10, 30, 50} THEN "up" ELSE "absent"]
    /\ entry = [p \in Peers |-> IF p \in {30, 50} THEN 10 ELSE None]
    /\ successor_list = [p \in Peers |-> IF p = 10 THEN <<30, 10>>
                                          ELSE IF p = 30 THEN <<50, 10>>
                                          ELSE IF p = 50 THEN <<10, 30>> ELSE <<p>>]
    /\ predecessor = [p \in Peers |-> IF p = 10 THEN 50 ELSE IF p = 30 THEN 10
                                       ELSE IF p = 50 THEN 30 ELSE p]
    /\ finger_table = [p \in Peers |->
                         IF p = 10 THEN FingerTable_put(FingerTable_new(10), 0, 30)
                         ELSE IF p = 30 THEN FingerTable_put(FingerTable_new(10), 0, 50)
                         ELSE IF p = 50 THEN FingerTable_new(10) ELSE FingerTable_new(p)]
    /\ joined = [p \in Peers |-> TRUE]
    /\ storage = [p \in Peers |-> EmptyStore]
    /\ net = {}
    /\ Running({10, 30, 50})
    /\ client = NoClient
    /\ Idle

NextFailover ==
    \/ \E p \in Peers : StabilizeProbe(p)
    \/ \E p \in Peers : StabilizeInstall(p)
    \/ \E p \in Peers : CheckPredecessorProbe(p)
    \/ \E p \in Peers : CheckPredecessorClear(p)
    \/ \E m \in net : Listener(m)
    \/ Fail(30)

SpecFailover == InitFailover /\ [][NextFailover]_vars

FairFailover == SpecFailover /\ Fairness({10, 50})

LookupIds == {5, 30, 35, 55}

\* Scenario 5's ring, stabilized and left alone, serves lookups.
NextLookup ==
    \/ \E p \in Peers : StabilizeProbe(p)
    \/ \E p \in Peers : StabilizeInstall(p)
    \/ \E m \in net : Listener(m)
    \/ \E p \in Peers, id \in LookupIds : LookupStart(p, id)
    \/ LookupStep

SpecLookup == InitFailover /\ [][NextLookup]_vars

\* The first live peer at or clockwise after id.
Owner(id) ==
    CHOOSE p \in Live : \A q \in Live :
        x_modulo_ring_size(p - id) <= x_modulo_ring_size(q - id)

\* C5: routing walk. In the stabilized ring a FindSuccessor{id} lookup started
\* at any peer ends with FoundSuccessor naming the first live peer at or
\* clockwise after id, after at most two AskFurther hops.
C5_RoutingWalk ==
    (client.op = "FindSuccessor" /\ client.state = "answered")
        => (client.result = Owner(client.key) /\ client.hops <= 2)

\* Scenario 4 of the spec: the ring of 10 and 50 as the join of 50 through 10
\* leaves it, keys 20 and 40 stored at peer 50 and acknowledged; the user
\* stores, finds and deletes keys; peer 20 joins through peer 10 and may fail.
InitHandoff ==
    /\ proc = [p \in Peers |-> IF p \in {10, 50} THEN "up"
                                ELSE IF p = 20 THEN "waiting" ELSE "absent"]
    /\ entry = [p \in Peers |-> IF p \in {20, 50} THEN 10 ELSE None]
    /\ successor_list = [p \in Peers |-> IF p = 10 THEN <<50, 10>> ELSE <<10>>]
    /\ predecessor = [p \in Peers |-> IF p = 10 THEN 50 ELSE IF p = 50 THEN 10 ELSE None]
    /\ finger_table = [p \in Peers |-> IF p = 10 THEN FingerTable_put(FingerTable_new(10), 0, 50)
                                        ELSE FingerTable_new(10)]
    /\ joined = [p \in Peers |-> p \in {10, 50}]
    /\ storage = [p \in Peers |-> IF p = 50 THEN [k \in Keys |-> 1] ELSE EmptyStore]
    /\ net = {}
    /\ Running({10, 50})
    /\ client = [NoClient EXCEPT !.stored = [k \in Keys |-> 1]]
    /\ Idle

DHTRequests == {"DHTStoreKey", "DHTFindKey", "DHTDeleteKey"}

NextHandoff ==
    \/ \E p \in Peers : Start(p)
    \/ \E p \in Peers : JoinCheck(p)
    \/ \E p \in Peers : join(p)
    \/ \E p \in Peers : StabilizeProbe(p)
    \/ \E p \in Peers : StabilizeInstall(p)
    \/ \E p \in Peers : CheckPredecessorProbe(p)
    \/ \E p \in Peers : CheckPredecessorClear(p)
    \/ \E m \in net : Listener(m)
    \/ \E m \in net : DHTListener(m)
    \/ \E p \in Peers, op \in DHTRequests, k \in Keys, v \in Values : Interact(p, op, k, v)
    \/ Fail(20)

SpecHandoff == InitHandoff /\ [][NextHandoff]_vars

\* k lies in (a, b] in ring order; the whole ring when a = b.
InOwnership(k, a, b) ==
    \/ a = b
    \/ /\ 0 < x_modulo_ring_size(k - a)
       /\ x_modulo_ring_size(k - a) <= x_modulo_ring_size(b - a)

\* C6: key ownership. Every key in the store of a running peer whose
\* predecessor is set lies in (predecessor.id, self.id].
C6_KeyOwnership ==
    \A p \in Peers :
        (proc[p] = "up" /\ predecessor[p] # None)
            => \A k \in Keys : storage[p][k] # None => InOwnership(k, predecessor[p], p)

\* The keys p holds that lie in (a, b].
Moved(p, a, b) == {k \in Keys : storage[p][k] # None /\ InOwnership(k, a, b)}

\* C7: key hand-off. When a Notify changes a peer's predecessor from old to
\* candidate, exactly its stored keys in (old, candidate] leave its store, in one
\* DHTTakeOverKeys to the candidate, and every other stored key stays.
C7_KeyHandoff ==
    [][\A p \in Peers :
         (/\ proc[p] = "up"
          /\ predecessor[p] # None /\ predecessor'[p] # None
          /\ predecessor'[p] # predecessor[p])
         => LET moved == Moved(p, predecessor[p], predecessor'[p])
            IN /\ storage'[p] = [k \in Keys |-> IF k \in moved THEN None ELSE storage[p][k]]
               /\ moved # {} =>
                    \E m \in net' :
                       /\ m.type = "DHTTakeOverKeys" /\ m.to = predecessor'[p]
                       /\ m.data = [k \in Keys |-> IF k \in moved THEN storage[p][k] ELSE None]
      ]_vars

\* No peer has left the ring.
NoneLeft == \A q \in Peers : proc[q] \in {"absent", "waiting", "up"}

\* C8: store then find. With the store of k acknowledged (DHTStoredKey) and k
\* neither deleted nor stored again since, and no peer gone, a DHTFindKey(k)
\* is answered with the stored payload, also after peers joined in between.
C8_StoreThenFind ==
    (/\ client.state = "answered" /\ client.op = "DHTFindKey"
     /\ client.stored[client.key] # None /\ NoneLeft)
        => client.result = client.stored[client.key]

\* C9: delete then find. After DHTDeleteKey(k) was answered with DHTDeletedKey,
\* with no store of k since, a DHTFindKey(k) is answered with no payload,
\* whichever peers the requests are issued at.
C9_DeleteThenFind ==
    (/\ client.state = "answered" /\ client.op = "DHTFindKey"
     /\ client.key \in client.deleted)
        => client.result = None

\* No handler and no maintenance step of p is in progress.
Quiescent(p) ==
    /\ proc[p] = "up"
    /\ stab[p].pc \in {"off", "lock"}
    /\ \A m \in net : m.to # p /\ m.sender # p

\* C10: finger 0 and successor. Whenever no handler and no maintenance step of
\* a peer is in progress, entry 0 of its finger table names the head of its
\* successor list.
C10_FingerZero ==
    \A p \in Peers : Quiescent(p) => finger_table[p][0] = get_successor(p)

\* ------------------------------------------------- the handlers, one request

\* The ids a request names: the peers, and ids before, between and after them.
RequestIds == Peers \cup LookupIds

\* The ring requests peer q may send to peer t.
Requests(t, q) ==
    {Msg("Notify", t, q, None, None, c, EmptyStore) : c \in Peers}
        \cup {Msg("FindSuccessor", t, q, id, None, None, EmptyStore) : id \in RequestIds}
        \cup {Msg("GetPredecessor", t, q, None, None, None, EmptyStore)}

\* Peer t with any successor and any predecessor, the other peers as they are
\* constructed; t's listener has accepted one request.
InitHandler ==
    /\ proc = [p \in Peers |-> "up"]
    /\ entry = [p \in Peers |-> None]
    /\ \E t \in Peers, succ \in Peers, pred \in Peers \cup {None} :
         /\ successor_list = [p \in Peers |-> IF p = t THEN <<succ>> ELSE <<p>>]
         /\ predecessor = [p \in Peers |-> IF p = t THEN pred ELSE p]
         /\ finger_table = [p \in Peers |-> FingerTable_new(IF p = t THEN succ ELSE p)]
         /\ \E q \in Peers : \E m \in Requests(t, q) : net = {m}
    /\ joined = [p \in Peers |-> TRUE]
    /\ storage = [p \in Peers |-> EmptyStore]
    /\ jd = [p \in Peers |-> "none"]
    /\ stab = [p \in Peers |-> ThreadOff]
    /\ cp = [p \in Peers |-> CheckOff]
    /\ ff = [p \in Peers |-> FixOff]
    /\ client = NoClient
    /\ Idle

NextHandler == \E m \in net : Listener(m)

SpecHandler == InitHandler /\ [][NextHandler]_vars

\* C11: Notify idempotence. In every node state and for every candidate, the
\* predecessor that handling Notify{candidate} leaves is the predecessor that
\* handling the same Notify once more would leave.
C11_NotifyIdempotent ==
    [][\A m \in net :
         OnNotify(m) => (update_predecessor(m.to, m.node))' = predecessor'[m.to]]_vars

C11_Witness ==
    \E m \in net : /\ m.type = "NOTIFY_SUCCESSOR"
                    /\ predecessor[m.sender] = m.node
                    /\ m.node \notin {m.sender, m.to}

\* ------------------------------------------------------ the interval predicate

\* The ring positions is_in_interval is called with: the ends of the ring, its
\* middle and their neighbours.
Positions ==
    {0, 1, 2, CHORD_RING_SIZE \div 2, CHORD_RING_SIZE - 2, CHORD_RING_SIZE - 1}

\* No process runs; is_in_interval(a, b, x) is about to be called, and so is
\* the same call with every argument moved c positions clockwise.
InitInterval ==
    /\ proc = [p \in Peers |-> "absent"]
    /\ entry = [p \in Peers |-> None]
    /\ successor_list = [p \in Peers |-> <<p>>]
    /\ predecessor = [p \in Peers |-> p]
    /\ finger_table = [p \in Peers |-> FingerTable_new(p)]
    /\ joined = [p \in Peers |-> TRUE]
    /\ storage = [p \in Peers |-> EmptyStore]
    /\ net = {}
    /\ jd = [p \in Peers |-> "none"]
    /\ stab = [p \in Peers |-> ThreadOff]
    /\ cp = [p \in Peers |-> CheckOff]
    /\ ff = [p \in Peers |-> FixOff]
    /\ client = NoClient
    /\ lock = [p \in Peers |-> "free"]
    /\ sd = [p \in Peers |-> SdOff]
    /\ \E a, b, x, c \in Positions : call = [args |-> <<a, b, x, c>>, out |-> <<>>]

\* The two calls return.
CallInterval ==
    /\ call.args # <<>>
    /\ call.out = <<>>
    /\ LET a == call.args[1]
           b == call.args[2]
           x == call.args[3]
           c == call.args[4]
       IN call' = [call EXCEPT !.out =
                     <<is_in_interval(a, b, x),
                       is_in_interval(x_modulo_ring_size(a + c), x_modulo_ring_size(b + c),
                                      x_modulo_ring_size(x + c))>>]
    /\ UNCHANGED <<proc, entry, lock, nodeVars, net, threadVars, client, sd>>

SpecInterval == InitInterval /\ [][CallInterval]_vars

\* C12: rotation invariance. is_in_interval(a, b, x) equals
\* is_in_interval((a+c) mod R, (b+c) mod R, (x+c) mod R).
C12_RotationInvariance == call.out # <<>> => call.out[1] = call.out[2]

C12_Witness ==
    /\ call.args = <<CHORD_RING_SIZE - 2, 1, CHORD_RING_SIZE - 1, 2>>
    /\ call.out = <<TRUE, TRUE>>

\* x lies strictly between a and b walking clockwise from a.
StrictlyBetween(a, b, x) ==
    /\ 0 < x_modulo_ring_size(x - a)
    /\ x_modulo_ring_size(x - a) < x_modulo_ring_size(b - a)

\* C13: open interval. is_in_interval(a, b, x) is true exactly when a = b or x
\* lies strictly between a and b clockwise; it is false for x = a and for
\* x = b when a # b.
C13_OpenInterval ==
    call.out # <<>> =>
        (call.out[1] <=> (call.args[1] = call.args[2]
                            \/ StrictlyBetween(call.args[1], call.args[2], call.args[3])))

Foreign == {"Kill", "Ping", "Undecodable"}

\* start_listening_on_socket, lines 65-73: a connection is accepted and its
\* line is read.
Accept(p, tag) ==
    /\ proc[p] = "up"
    /\ net' = net \cup {Msg(tag, p, None, None, None, None, EmptyStore)}
    /\ net' # net
    /\ UNCHANGED <<proc, entry, lock, nodeVars, threadVars, client, sd, call>>

\* Lines 78-83: the node is locked, Message::Kill => process::exit(0).
OnKill(m) ==
    /\ m \in net
    /\ m.type = "Kill"
    /\ proc[m.to] = "up"
    /\ lock[m.to] = "free"
    /\ proc' = [proc EXCEPT ![m.to] = "exit0"]
    /\ net' = Purge(net, m.to)
    /\ UNCHANGED <<entry, lock, nodeVars, threadVars, client, sd, call>>

\* Lines 78, 84-87: the node is locked, Message::Ping => Ok(()), the guard is
\* dropped with the closure.
OnPing(m) ==
    /\ m \in net
    /\ m.type = "Ping"
    /\ proc[m.to] = "up"
    /\ lock[m.to] = "free"
    /\ net' = net \ {m}
    /\ UNCHANGED <<proc, entry, lock, nodeVars, threadVars, client, sd, call>>

\* A listener that locks the node before it decodes: the panic poisons the lock.
OnUndecodable_Locked(m) ==
    /\ m \in net
    /\ m.type = "Undecodable"
    /\ proc[m.to] = "up"
    /\ lock[m.to] = "free"
    /\ net' = net \ {m}
    /\ lock' = [lock EXCEPT ![m.to] = "poisoned"]
    /\ UNCHANGED <<proc, entry, nodeVars, threadVars, client, sd, call>>

\* Lines 75-76: str::from_utf8(..).unwrap() or serde_json::from_str(..).unwrap()
\* panics, before the lock of line 78 is taken; the runtime catches the panic
\* of the connection's task and drops the task with its socket.
OnUndecodable(m) ==
    /\ m \in net
    /\ m.type = "Undecodable"
    /\ proc[m.to] = "up"
    /\ net' = net \ {m}
    /\ UNCHANGED <<proc, entry, lock, nodeVars, threadVars, client, sd, call>>

\* The two-peer join, with records from outside arriving at any time.
NextWire ==
    \/ NextJoin
    \/ \E p \in Peers, tag \in Foreign : Accept(p, tag)
    \/ \E m \in net : OnKill(m)
    \/ \E m \in net : OnPing(m)
    \/ \E m \in net : OnUndecodable(m)

SpecWire == InitJoin /\ [][NextWire]_vars

\* C15: only ring-dead terminates on network input. A running process ends only
\* with status 1, in a step of a joined node whose whole successor list is
\* dead; no record received from the network ends it.
C15_OnlyRingDeadExits ==
    [][\A p \in Peers :
         (proc[p] = "up" /\ proc'[p] # "up")
             => (proc'[p] = "exit1" /\ joined[p] /\ AllDead(p))]_vars

\* C16: deserialization failure is harmless. The step that handles a line that
\* does not decode changes no node state, leaves the node lock free and not
\* poisoned, ends no process and no maintenance loop, and leaves every other
\* accepted record to be handled.
C16_UndecodableHarmless ==
    [][\A m \in net :
         (m.type = "Undecodable" /\ net' = net \ {m})
             => /\ UNCHANGED <<proc, nodeVars, threadVars, sd>>
                /\ lock'[m.to] = "free"]_vars

C16_Witness ==
    /\ joined[30] /\ jd[30] = "done"
    /\ \E m \in net : m.type = "Undecodable" /\ m.to = 30
    /\ \E m \in net : m.type = "Undecodable" /\ m.to = 10
    /\ \E m \in net : m.type = "GetPredecessor" /\ m.to = 30

\* ------------------------------------------------------------ the node lock

\* start_listening_on_socket, lines 78 and 96-98, up to the return of the send
\* that process_incoming_response makes: the guard of line 78 is alive, the
\* node is locked.
ResponseSend(m) ==
    /\ GotPredecessor(m)
    /\ lock' = [lock EXCEPT ![m.to] = "listener"]

\* Line 99: process_incoming_response has returned, drop(node).
DropNode(p) ==
    /\ proc[p] = "up"
    /\ lock[p] = "listener"
    /\ lock' = [lock EXCEPT ![p] = "free"]
    /\ UNCHANGED <<proc, entry, nodeVars, net, threadVars, client, sd, call>>

\* The listener, the handling of a response in its two steps.
ListenerLocked(m) ==
    \/ OnFindSuccessor(m)
    \/ OnGetPredecessor(m)
    \/ OnNotify(m)
    \/ OnFoundSuccessor(m)
    \/ ResponseSend(m)
    \/ OnNotifySuccessor(m)

\* The two-peer join, the lock of each node observed while its workers send.
NextLock ==
    \/ \E p \in Peers : Start(p)
    \/ \E p \in Peers : JoinCheck(p)
    \/ \E p \in Peers : join(p)
    \/ \E p \in Peers : StabilizeProbe(p)
    \/ \E p \in Peers : StabilizeInstall(p)
    \/ \E p \in Peers : CheckPredecessorProbe(p)
    \/ \E m \in net : ListenerLocked(m)
    \/ \E p \in Peers : DropNode(p)

SpecLock == InitJoin /\ [][NextLock]_vars

\* C17: lock discipline. No worker of a running peer holds the node lock while
\* it sends, probes or sleeps (the lock is observed held only then); so no
\* two peers hold their locks while each sends to the other.
C17_LockDiscipline ==
    /\ \A p \in Peers : proc[p] = "up" => lock[p] = "free"
    /\ \A p, q \in Peers :
          ~(/\ p # q /\ lock[p] # "free" /\ lock[q] # "free"
            /\ \E m \in net : m.sender = p /\ m.to = q
            /\ \E m \in net : m.sender = q /\ m.to = p)

\* ---------------------------------------------------------- graceful shutdown

\* listen_for_kill_signal, lines 177-179: SIGINT arrives; lock, clone, drop.
Signal(p) ==
    /\ proc[p] = "up"
    /\ lock[p] = "free"
    /\ sd[p].pc = "wait"
    /\ sd' = [sd EXCEPT ![p] = [pc |-> "shutdown", storage |-> storage[p],
                                succ |-> get_successor(p), pred |-> predecessor[p]]]
    /\ UNCHANGED <<proc, entry, lock, nodeVars, net, threadVars, client, call>>

\* Lines 181-185: graceful_shutdown() of the clone sends DHTTakeOverKeys with
\* the clone's store and Notify{the clone's predecessor} to the clone's
\* successor; the sends are joined, then process::exit(0).
Shutdown(p) ==
    /\ proc[p] = "up"
    /\ sd[p].pc = "shutdown"
    /\ LET keys == Msg("DHTTakeOverKeys", sd[p].succ, p, None, None, None, sd[p].storage)
           notify == Msg("Notify", sd[p].succ, p, None, None, sd[p].pred, EmptyStore)
       IN net' = Purge(IF sd[p].pred # None THEN Sent(Sent(net, keys), notify)
                       ELSE Sent(net, keys), p)
    /\ proc' = [proc EXCEPT ![p] = "exit0"]
    /\ sd' = [sd EXCEPT ![p] = [SdOff EXCEPT !.pc = "exit"]]
    /\ UNCHANGED <<entry, lock, nodeVars, threadVars, client, call>>

\* The ring of 10 and 50 as the join of 50 through 10 leaves it, keys 20 and
\* 40 stored at peer 50; the user stores, finds and deletes keys; SIGINT may
\* arrive at either peer.
InitShutdown ==
    /\ proc = [p \in Peers |-> IF p \in {10, 50} THEN "up" ELSE "absent"]
    /\ entry = [p \in Peers |-> IF p = 50 THEN 10 ELSE None]
    /\ successor_list = [p \in Peers |-> IF p = 10 THEN <<50, 10>>
                                          ELSE IF p = 50 THEN <<10>> ELSE <<p>>]
    /\ predecessor = [p \in Peers |-> IF p = 10 THEN 50 ELSE IF p = 50 THEN 10 ELSE p]
    /\ finger_table = [p \in Peers |->
                         IF p = 10 THEN FingerTable_put(FingerTable_new(10), 0, 50)
                         ELSE IF p = 50 THEN FingerTable_new(10) ELSE FingerTable_new(p)]
    /\ joined = [p \in Peers |-> TRUE]
    /\ storage = [p \in Peers |-> IF p = 50 THEN [k \in Keys |-> 1] ELSE EmptyStore]
    /\ net = {}
    /\ Running({10, 50})
    /\ client = [NoClient EXCEPT !.stored = [k \in Keys |-> 1]]
    /\ Idle

NextShutdown ==
    \/ \E p \in Peers : StabilizeProbe(p)
    \/ \E p \in Peers : StabilizeInstall(p)
    \/ \E p \in Peers : CheckPredecessorProbe(p)
    \/ \E p \in Peers : CheckPredecessorClear(p)
    \/ \E m \in net : Listener(m)
    \/ \E m \in net : DHTListener(m)
    \/ \E p \in Peers, op \in DHTRequests, k \in Keys, v \in Values : Interact(p, op, k, v)
    \/ \E p \in Peers : Signal(p)
    \/ \E p \in Peers : Shutdown(p)

SpecShutdown == InitShutdown /\ [][NextShutdown]_vars

\* C18: graceful shutdown hands off everything. The step in which a peer exits
\* with status 0 after a termination signal sends, to the successor the peer
\* has at that moment, DHTTakeOverKeys with every key its store holds at that
\* moment and Notify naming the predecessor it has at that moment.
C18_GracefulShutdown ==
    [][\A p \in Peers :
         (proc[p] = "up" /\ proc'[p] = "exit0" /\ proc[get_successor(p)] = "up"
          /\ get_successor(p) # p)
         => /\ \E m \in net' : /\ m.type = "DHTTakeOverKeys" /\ m.to = get_successor(p)
                                /\ m.data = storage[p]
            /\ predecessor[p] # None =>
                  \E m \in net' : /\ m.type = "Notify" /\ m.to = get_successor(p)
                                  /\ m.node = predecessor[p]]_vars

\* C19: the FindSuccessor rule. Handling FindSuccessor{id} changes no node
\* state and answers the sender FoundSuccessor{successor} exactly when id lies
\* in (self, successor], and AskFurther{closest preceding node of id} otherwise.
C19_FindSuccessorRule ==
    [][\A m \in net :
         OnFindSuccessor(m) =>
            LET p == m.to
                answers(type, node) ==
                    \E r \in net' : /\ r.type = type /\ r.node = node
                                     /\ r.to = m.sender /\ r.sender = p
            IN /\ UNCHANGED nodeVars
               /\ IF is_in_half_range(m.id, p, get_successor(p))
                  THEN answers("FoundSuccessor", get_successor(p))
                  ELSE answers("AskFurther", closet_finger_preceding(p, m.id))]_vars

\* C20: the Notify rule. Handling Notify{candidate} sets the predecessor to the
\* candidate when the predecessor is absent or the candidate lies strictly in
\* (predecessor, self), and leaves it otherwise; the successor and the finger
\* table stay; the sender is answered a plain NotifyResponse that names no node.
C20_NotifyRule ==
    [][\A m \in net :
         OnNotify(m) =>
            LET p == m.to
            IN /\ predecessor'[p] =
                     IF predecessor[p] = None \/ is_in_range(m.node, predecessor[p], p)
                     THEN m.node ELSE predecessor[p]
               /\ UNCHANGED <<successor_list, finger_table>>
               /\ \E r \in net' : /\ r.type = "NotifyResponse" /\ r.node = None
                                   /\ r.to = m.sender /\ r.sender = p]_vars

\* ------------------------------------------------- C21: closest preceding node

\* closest_preceding as specified: the finger entries are scanned from the last
\* index down to 0 and the first one in (self, target_id) is returned, self
\* when there is none.
Qualifying(p, target_id) ==
    {i \in 0 .. FINGERTABLE_SIZE - 1 :
        finger_table[p][i] # None /\ is_in_range(finger_table[p][i], p, target_id)}

closest_preceding(p, target_id) ==
    LET q == Qualifying(p, target_id)
    IN IF q = {} THEN p ELSE finger_table[p][CHOOSE i \in q : \A j \in q : j <= i]

\* C21: for a peer that runs and a target id other than its own,
\* closet_finger_preceding returns
\* the first finger entry, scanning from the last index down, that lies in
\* (self, target_id), whenever some finger entry lies there.
C21_ClosestPreceding ==
    \A p \in Peers : \A t \in RequestIds :
        (proc[p] = "up" /\ t # p /\ Qualifying(p, t) # {}) =>
            closet_finger_preceding(p, t) = closest_preceding(p, t)

\* ------------------------------------------------ C22: the fix-fingers cycle

\* The ring of 10 and 30 as the two-peer join leaves it, every maintenance
\* thread running: fix_fingers goes through its cycle while the ring is stable.
InitFingers ==
    /\ proc = [p \in Peers |-> IF p \in {10, 30} THEN "up" ELSE "absent"]
    /\ entry = [p \in Peers |-> IF p = 30 THEN 10 ELSE None]
    /\ successor_list = [p \in Peers |-> IF p = 10 THEN <<30, 10>> ELSE <<10>>]
    /\ predecessor = [p \in Peers |-> IF p = 10 THEN 30 ELSE IF p = 30 THEN 10 ELSE None]
    /\ finger_table = [p \in Peers |-> IF p = 10 THEN FingerTable_put(FingerTable_new(10), 0, 30)
                                        ELSE FingerTable_new(10)]
    /\ joined = [p \in Peers |-> p \in {10, 30}]
    /\ storage = [p \in Peers |-> EmptyStore]
    /\ net = {}
    /\ Running({10, 30})
    /\ client = NoClient
    /\ Idle

NextFingers ==
    \/ \E p \in Peers : StabilizeProbe(p)
    \/ \E p \in Peers : StabilizeInstall(p)
    \/ \E p \in Peers : CheckPredecessorProbe(p)
    \/ \E p \in Peers : FixFingers(p)
    \/ \E m \in net : Listener(m)

SpecFingers == InitFingers /\ [][NextFingers]_vars

FingerRequests == {m \in net : m.type = "FindSuccessorFinger"}

\* C22: every FindSuccessorFinger request carries an index in [1, m) and the
\* finger id (sender + 2^index) mod R; a joined tick of fix-fingers sends the
\* request for the current index to the successor and advances the index by
\* one, from m-1 back to 1; a tick of a node that is not joined sends nothing
\* and leaves the index.
C22_FingerCycle ==
    /\ [](\A m \in FingerRequests :
            /\ m.index \in 1 .. FINGERTABLE_SIZE - 1
            /\ m.id = (m.sender + 2 ^ m.index) % CHORD_RING_SIZE)
    /\ [](\A p \in Peers : ff[p].next \in 1 .. FINGERTABLE_SIZE - 1)
    /\ [][\A p \in Peers : FixFingers(p) =>
            IF joined[p]
            THEN /\ \E m \in FingerRequests' :
                       /\ m.sender = p
                       /\ m.to = get_successor(p)
                       /\ m.index = ff[p].next
                 /\ ff'[p].next = IF ff[p].next = FINGERTABLE_SIZE - 1
                                  THEN 1 ELSE ff[p].next + 1
            ELSE UNCHANGED <<net, ff>>]_vars

\* Peer 30 has gone through the whole cycle: its last finger entry has been
\* answered, the index has wrapped, the request for index 1 is in flight again
\* and the next index is 2.
C22_Witness ==
    /\ joined[30]
    /\ finger_table[30][FINGERTABLE_SIZE - 1] = 30
    /\ ff[30].next = 2
    /\ \E m \in FingerRequests : m.sender = 30 /\ m.index = 1 /\ m.to = 10

\* --------------------------------- C23: check-predecessor clears the dead peer

\* C23: an iteration of check-predecessor clears the predecessor only when the
\* predecessor stored at that moment is the peer whose probe failed, so a
\* predecessor installed by a Notify after the snapshot is not cleared; an
\* iteration whose probe succeeded, or that found no predecessor, leaves the
\* predecessor as it is.
C23_ClearsOnlyDeadPeer ==
    [][\A p \in Peers :
          /\ CheckPredecessorClear(p) =>
                 (predecessor[p] = cp[p].pred /\ ~check_alive(predecessor[p]))
          /\ CheckPredecessorProbe(p) => UNCHANGED predecessor]_vars

\* ------------------------------- C24: stabilize against a fresher successor

\* The clockwise distance from p to q, a full turn for p itself.
Clockwise(p, q) == IF q = p THEN CHORD_RING_SIZE ELSE x_modulo_ring_size(q - p)

\* C24: when stabilize installs the live entry of its snapshot, a live
\* successor that the listener adopted after the snapshot is not replaced by a
\* peer farther clockwise from the node.
C24_KeepsFresherSuccessor ==
    [][\A p \in Peers :
          (/\ StabilizeInstall(p)
           /\ get_successor(p) # Head(stab[p].list)
           /\ check_alive(get_successor(p)))
          => Clockwise(p, Head(successor_list'[p])) <= Clockwise(p, get_successor(p))]_vars

\* ------------------------------------------------- C25: the ownership test

\* Peer 10 runs as a single-peer ring, its predecessor itself; a user types
\* DHT requests at it; is_my_key(self_id, pre_id, key_id) is about to be called.
InitKey ==
    /\ proc = [p \in Peers |-> IF p = 10 THEN "up" ELSE "absent"]
    /\ entry = [p \in Peers |-> None]
    /\ successor_list = [p \in Peers |-> <<p>>]
    /\ predecessor = [p \in Peers |-> p]
    /\ finger_table = [p \in Peers |-> FingerTable_new(p)]
    /\ joined = [p \in Peers |-> TRUE]
    /\ storage = [p \in Peers |-> EmptyStore]
    /\ net = {}
    /\ Running({10})
    /\ client = NoClient
    /\ lock = [p \in Peers |-> "free"]
    /\ sd = [p \in Peers |-> SdOff]
    /\ \E self_id, pre_id, key_id \in Positions :
           call = [args |-> <<self_id, pre_id, key_id>>, out |-> <<>>]

\* The call returns.
CallKey ==
    /\ call.args # <<>>
    /\ call.out = <<>>
    /\ call' = [call EXCEPT !.out = <<is_my_key(call.args[1], call.args[2], call.args[3])>>]
    /\ UNCHANGED <<proc, entry, lock, nodeVars, net, threadVars, client, sd>>

NextKey ==
    \/ CallKey
    \/ \E p \in Peers : StabilizeProbe(p)
    \/ \E p \in Peers : StabilizeInstall(p)
    \/ \E p \in Peers : CheckPredecessorProbe(p)
    \/ \E m \in net : Listener(m)
    \/ \E m \in net : DHTListener(m)
    \/ \E p \in Peers, op \in DHTRequests, k \in Keys, v \in Values : Interact(p, op, k, v)

SpecKey == InitKey /\ [][NextKey]_vars

\* C25: is_my_key(self_id, pre_id, key_id) holds exactly when key_id lies in
\* (pre_id, self_id] in ring order, the whole ring when pre_id = self_id; and a
\* node that is its own predecessor answers every DHT store, find and delete
\* with the terminal response, never with an AskFurther variant.
C25_OwnershipTest ==
    /\ [](call.out # <<>> =>
            (call.out[1] <=> InOwnership(call.args[3], call.args[2], call.args[1])))
    /\ [][\A m \in net :
            (OnDHTRequest(m) /\ predecessor[m.to] = m.to) =>
                /\ \E r \in net' : /\ r.type = Terminal(m.type)
                                   /\ r.to = m.sender
                                   /\ r.id = m.id
                /\ \A r \in net' : r.type # Further(m.type)]_vars

\* The test has accepted key 0 in the interval (R-1, 1], which wraps, and the
\* single peer 10 has answered a find with DHTFoundKey.
C25_Witness ==
    /\ call.args = <<1, CHORD_RING_SIZE - 1, 0>>
    /\ call.out = <<TRUE>>
    /\ predecessor[10] = 10
    /\ get_successor(10) = 10
    /\ \E m \in net : m.type = "DHTFoundKey" /\ m.to = 10 /\ m.sender = 10

\* ------------------------------------------------------------ C26: join gating

\* Scenario 2 with every thread of spawn_node: the join driver, stabilize,
\* check_predecessor, the listener, and the first iterations of fix_fingers.
NextGate ==
    \/ NextJoin
    \/ \E p \in Peers : ff[p].next <= MaxFinger /\ FixFingers(p)

SpecGate == InitJoin /\ [][NextGate]_vars

\* The messages a step of peer p puts on the wire.
Emitted(p) == {m \in net' \ net : m.sender = p}

\* C26: a peer that is not joined has no stabilize, fix-fingers or
\* check-predecessor thread and emits no GetPredecessor and no
\* FindSuccessorFinger; its join driver sends FindSuccessor{self} to the entry
\* node, once per check of the flag; once the peer is joined the driver sends
\* no FindSuccessor{self} any more and ends at its next check, and from then
\* on the three maintenance threads run as long as the process does.
C26_JoinGating ==
    /\ [](\A p \in Peers : (proc[p] = "up" /\ ~joined[p]) =>
            /\ stab[p].pc = "off"
            /\ cp[p].pc = "off"
            /\ ff[p].pc = "off")
    /\ [][\A p \in Peers : ~joined[p] =>
            \A m \in Emitted(p) :
                /\ m.type \notin {"GetPredecessor", "FindSuccessorFinger"}
                /\ m.type = "FindSuccessor" => (m.to = entry[p] /\ m.id = p)]_vars
    /\ [][\A p \in Peers : join(p) => (jd'[p] = "check" /\ ~joined[p])]_vars
    /\ [][\A p \in Peers : (JoinCheck(p) /\ joined[p]) => jd'[p] = "done"]_vars
    /\ [](\A p \in Peers : (proc[p] = "up" /\ jd[p] \in {"none", "done"}) =>
            /\ stab[p].pc # "off"
            /\ cp[p].pc # "off"
            /\ ff[p].pc # "off")

\* ------------------------------------------- C27: late and repeated responses

\* The responses peer q may send to peer t.
Responses(t, q) ==
    {Msg("FoundSuccessor", t, q, t, None, c, EmptyStore) : c \in Peers}
        \cup {Msg("FoundSuccessorFinger", t, q, get_finger_id(t, i), i, c, EmptyStore) :
                 c \in Peers, i \in {1, FINGERTABLE_SIZE - 1}}
        \cup {Msg("GetPredecessorResponse", t, q, None, None, x, EmptyStore) :
                 x \in Peers \cup {None}}

\* Peer t with any successor and any predecessor, joined or not, the other
\* peers as they are constructed; t's listener has accepted one message.
InitReplay ==
    /\ proc = [p \in Peers |-> "up"]
    /\ entry = [p \in Peers |-> None]
    /\ \E t \in Peers, succ \in Peers, pred \in Peers \cup {None}, j \in BOOLEAN :
         /\ successor_list = [p \in Peers |-> IF p = t THEN <<succ>> ELSE <<p>>]
         /\ predecessor = [p \in Peers |-> IF p = t THEN pred ELSE p]
         /\ finger_table = [p \in Peers |-> FingerTable_new(IF p = t THEN succ ELSE p)]
         /\ joined = [p \in Peers |-> IF p = t THEN j ELSE TRUE]
         /\ \E q \in Peers : \E m \in Requests(t, q) \cup Responses(t, q) : net = {m}
    /\ storage = [p \in Peers |-> EmptyStore]
    /\ jd = [p \in Peers |-> "none"]
    /\ stab = [p \in Peers |-> ThreadOff]
    /\ cp = [p \in Peers |-> CheckOff]
    /\ ff = [p \in Peers |-> FixOff]
    /\ client = NoClient
    /\ Idle

NextReplay == \E m \in net : Listener(m)

SpecReplay == InitReplay /\ [][NextReplay]_vars

\* C27: the node state that handling FoundSuccessor{peer},
\* FoundSuccessorFinger{index, finger_id, peer} or GetPredecessorResponse{x}
\* leaves is the node state that handling the same response once more, directly
\* afterwards, would leave: the successor list, the finger table and the joined
\* flag come out the same, and the handlers touch nothing else of the node.
C27_ResponsesIdempotent ==
    [][\A m \in net :
         /\ OnFoundSuccessor(m) =>
              /\ UNCHANGED <<predecessor, storage>>
              /\ IF m.index # None /\ m.id # None
                 THEN FingerTable_put(finger_table'[m.to], m.index, m.node)
                          = finger_table'[m.to]
                 ELSE /\ (found_successor(m.to, m.node))' = successor_list'[m.to]
                      /\ joined'[m.to]
         /\ OnGetPredecessorResponse(m) =>
              /\ UNCHANGED <<predecessor, finger_table, joined, storage>>
              /\ (IF m.node # None THEN update_successor(m.to, m.node)
                  ELSE successor_list[m.to])' = successor_list'[m.to]]_vars

\* Peer 10, its successor 30, has handled GetPredecessorResponse{20}: 20 is
\* its successor and Notify{10} is on its way there.
C27_Witness ==
    /\ successor_list[10] = <<20, 30>>
    /\ \E m \in net : m.type = "Notify" /\ m.sender = 10 /\ m.to = 20 /\ m.node = 10
====
